---- MODULE Spec2Model ----
(***************************************************************************)
(* sctools.count: construction of a cells x genes molecule count matrix    *)
(* from a tagged, sorted alignment stream (CountMatrix.from_bam), and the  *)
(* persistence and row-wise merge of such matrices.                        *)
(*                                                                         *)
(* from_bam is modelled one loop iteration at a time: first the loop over  *)
(* the annotation records, then the loop over the alignment records, then  *)
(* the construction of the matrix and of its label arrays.                 *)
(***************************************************************************)
EXTENDS Integers, Sequences, FiniteSets, TLC

\* ------------------------------------------------------------------ bounds

\* number of gene records the annotation reader produces, at most
MaxAnnot == 2
\* number of alignment records the alignment file holds, at most
MaxRecords == 3
\* number of rows of a matrix handed to save, and of its row labels, at most
MaxRows == 1
\* number of prefixes handed to merge_matrices, at most
MaxInputs == 2

\* ------------------------------------------------------------ input values

None == "None"
Genes == {"gA", "gB"}
Cells == {"c1", "c2"}
Molecules == {"m1", "m2"}
MapQs == {0, 1}
FeatureTypes == {"gene", "exon"}

\* an annotation record: its feature type and its gene_name attribute
GtfRecords == [feature : FeatureTypes, gene_name : Genes \cup {None}]

\* an alignment record: the three tags (None: the tag is absent) and the
\* mapping quality
SamRecords ==
    [gene : Genes \cup {None}, cell : Cells \cup {None},
     molecule : Molecules \cup {None}, mapping_quality : MapQs]

\* the prefixes under which matrices are saved
Prefixes == {"p1", "p2"}

\* the rows a saved matrix is made of
RowVectors == {<<1>>, <<1, 0>>, <<0, 1>>}

\* the column label arrays a saved matrix carries
ColLabels == {<<"gA">>, <<"gA", "gB">>, <<"gB", "gA">>}

\* a file that does not exist, and a file of content x
NoFile == <<>>
File(x) == <<x>>
Content(file) == file[1]

VARIABLES
    pc,                \* "annot", "scan", "returned", "raised"
    error,             \* the exception from_bam raised, or None
    result,            \* the CountMatrix from_bam returned, or None
    mapq_threshold,    \* parameter of from_bam
    gene_index,        \* next value of enumerate() over the retained records
    gene_id_to_index,  \* Dict[str, int]
    n_cells,
    cell_id_to_index,  \* Dict[str, int]
    current_molecule,  \* tuple() or (gene, cell, molecule)
    data, cell_indices, gene_indices,   \* the coordinate lists
    sam_pos,           \* alignment records read so far
    retained,          \* history: gene_name of each retained annotation record
    complete,          \* history: the alignment records read that carry all three tags
    entry_at,          \* history: for each entry, the position in complete of its record
    files,             \* the file system: for each prefix its three files
    op,                \* the call made on the file system: "none", "merge"
    input_prefixes,    \* the argument of merge_matrices
    merged,            \* the CountMatrix merge_matrices returned, or None
    merge_error,       \* the exception merge_matrices raised, or None
    files0,            \* history: the file system before save was called
    saving,            \* the save call: its state ("idle", "running", "done",
                       \* "interrupted"), its prefix, its self, the number of files written
    loaded,            \* the CountMatrix load returned, or None
    load_error,        \* the exception load raised, or None
    load_prefix,       \* the argument of load, or None
    annotation,        \* sharded run: the gene_name of each gene record of the annotation
    stream,            \* sharded run: the alignment records of the whole input
    shard_pc,          \* sharded run: "idle", "start", "whole", "counted", "merged"
    whole,             \* sharded run: outcome of from_bam on the whole input
    shards,            \* sharded run: the consecutive parts the input is split into
    shard_results      \* sharded run: outcome of from_bam on each shard

annotVars == <<gene_index, gene_id_to_index, retained>>
scanVars == <<n_cells, cell_id_to_index, current_molecule, data, cell_indices,
              gene_indices, sam_pos, complete, entry_at>>
bamVars == <<pc, error, result, mapq_threshold, annotVars, scanVars>>
storeVars == <<files, op, input_prefixes, merged, merge_error>>
saveVars == <<files0, saving, loaded, load_error, load_prefix>>
shardVars == <<annotation, stream, shard_pc, whole, shards, shard_results>>
vars == <<bamVars, storeVars, saveVars, shardVars>>

\* --------------------------------------------------------------- helpers

EmptyDict == [k \in {} |-> 0]

\* d[k] = v
SetItem(d, k, v) == [x \in DOMAIN d \cup {k} |-> IF x = k THEN v ELSE d[x]]

\* KeysByValue sorting in descending order of the index
KeysByValue_descending(d) ==
    [i \in 1..Cardinality(DOMAIN d) |->
        CHOOSE k \in DOMAIN d : Cardinality({j \in DOMAIN d : d[j] > d[k]}) = i - 1]

\* [k for k, v in sorted(d.items(), key=operator.itemgetter(1))]
KeysByValue(d) ==
    [i \in 1..Cardinality(DOMAIN d) |->
        CHOOSE k \in DOMAIN d : Cardinality({j \in DOMAIN d : d[j] < d[k]}) = i - 1]

\* gtf.Reader.filter(retain_types=['gene']) keeps a record iff its type is gene
Retained(rec) == rec.feature = "gene"

\* MissingGeneName without the test for None
MissingGeneName_unchecked(rec) == FALSE

\* record.get_attribute('gene_name') is None
MissingGeneName(rec) == rec.gene_name = None

\* sam_record.get_tag raises KeyError for an absent tag
MissingTag(rec) == rec.gene = None \/ rec.cell = None \/ rec.molecule = None

\* LowMapq with the comparison reversed
LowMapq_reversed(rec, threshold) == rec.mapping_quality > threshold

\* sam_record.mapping_quality < mapq_threshold
LowMapq(rec, threshold) == rec.mapping_quality < threshold

\* what the history keeps of a record that carries all three tags: its tags
\* and whether its mapping quality reached the threshold
Seen(rec, threshold) ==
    [gene |-> rec.gene, cell |-> rec.cell, molecule |-> rec.molecule,
     accepted |-> rec.mapping_quality >= threshold]

MoleculeKey(rec) == <<rec.gene, rec.cell, rec.molecule>>

\* SameMolecule that never recognises the current molecule
SameMolecule_never(current, key) == FALSE

\* SameMolecule comparing the cell and the molecule only
SameMolecule_ignoring_gene(current, key) ==
    current # <<>> /\ current[2] = key[2] /\ current[3] = key[3]

\* current_molecule == (gene, cell, molecule)
SameMolecule(current, key) == current = key

\* ------------------------------------------------------ matrix construction

RECURSIVE SumAt(_, _, _, _, _)
\* the sum of the data of the entries 1..n that lie at (row, col)
SumAt(d, rows, cols, n, rc) ==
    IF n = 0 THEN 0
    ELSE SumAt(d, rows, cols, n - 1, rc)
         + (IF <<rows[n], cols[n]>> = rc THEN d[n] ELSE 0)

\* shape = (len(cell_indices), len(gene_id_to_index))
Shape(ci, g2i) == <<Len(ci), Cardinality(DOMAIN g2i)>>

\* sp.coo_matrix rejects a coordinate outside the declared shape
CooInRange(rows, cols, shape) ==
    \A i \in 1..Len(rows) : rows[i] < shape[1] /\ cols[i] < shape[2]

\* sp.coo_matrix((data, (rows, cols)), shape).tocsr(): duplicates are summed.
\* A matrix is its shape and its rows; row index r is rows[r + 1].
CooToCsr(d, rows, cols, shape) ==
    [shape |-> shape,
     rows |-> [r \in 1..shape[1] |->
                 [c \in 1..shape[2] |-> SumAt(d, rows, cols, Len(d), <<r - 1, c - 1>>)]]]

\* -------------------------------------------------------------------- Init

BamInit ==
    /\ pc = "annot"
    /\ error = None
    /\ result = None
    /\ mapq_threshold \in MapQs
    /\ gene_index = 0
    /\ gene_id_to_index = EmptyDict
    /\ retained = <<>>
    /\ n_cells = 0
    /\ cell_id_to_index = EmptyDict
    /\ current_molecule = <<>>
    /\ data = <<>>
    /\ cell_indices = <<>>
    /\ gene_indices = <<>>
    /\ sam_pos = 0
    /\ complete = <<>>
    /\ entry_at = <<>>

\* an outcome of from_bam that is not there yet
NoOutcome == [error |-> None, value |-> None]

\* no sharded run
ShardIdle ==
    /\ annotation = <<>>
    /\ stream = <<>>
    /\ shard_pc = "idle"
    /\ whole = NoOutcome
    /\ shards = <<>>
    /\ shard_results = <<>>

\* no save and no load was called
SaveIdle ==
    /\ saving = [state |-> "idle", prefix |-> None, self |-> None, written |-> 0]
    /\ loaded = None
    /\ load_error = None
    /\ load_prefix = None

Init ==
    /\ BamInit
    /\ files = [p \in Prefixes |->
                   [npz |-> NoFile, row_index |-> NoFile, col_index |-> NoFile]]
    /\ op = "none"
    /\ input_prefixes = <<>>
    /\ merged = None
    /\ merge_error = None
    /\ files0 = files
    /\ SaveIdle
    /\ ShardIdle

\* --------------------------------------------------- the annotation loop

\* a record of another feature type: the filter does not yield it
AnnotFiltered ==
    /\ pc = "annot"
    /\ \E rec \in GtfRecords : ~Retained(rec)
    /\ UNCHANGED vars

\* a gene record with a gene_name: gene_id_to_index[gene_id] = gene_index
AnnotGene ==
    /\ pc = "annot"
    /\ Len(retained) < MaxAnnot
    /\ \E rec \in GtfRecords :
        /\ Retained(rec)
        /\ ~MissingGeneName(rec)
        /\ gene_id_to_index' = SetItem(gene_id_to_index, rec.gene_name, gene_index)
        /\ gene_index' = gene_index + 1
        /\ retained' = Append(retained, rec.gene_name)
    /\ UNCHANGED <<storeVars, saveVars, shardVars, pc, error, result, mapq_threshold, scanVars>>

\* a gene record without a gene_name: raise ValueError
AnnotMalformed ==
    /\ pc = "annot"
    /\ Len(retained) < MaxAnnot
    /\ \E rec \in GtfRecords :
        /\ Retained(rec)
        /\ MissingGeneName(rec)
        /\ retained' = Append(retained, rec.gene_name)
    /\ pc' = "raised"
    /\ error' = "ValueError"
    /\ UNCHANGED <<storeVars, saveVars, shardVars, result, mapq_threshold, gene_index, gene_id_to_index, scanVars>>

\* the annotation reader is exhausted: the alignment file is opened
AnnotEnd ==
    /\ pc = "annot"
    /\ pc' = "scan"
    /\ UNCHANGED <<storeVars, saveVars, shardVars, error, result, mapq_threshold, annotVars, scanVars>>

\* ---------------------------------------------------- the alignment loop

\* a tag is absent: except KeyError: continue
ScanMissingTag ==
    /\ pc = "scan"
    /\ sam_pos < MaxRecords
    /\ \E rec \in SamRecords :
        /\ MissingTag(rec)
        /\ sam_pos' = sam_pos + 1
    /\ UNCHANGED <<storeVars, saveVars, shardVars, pc, error, result, mapq_threshold, annotVars, n_cells,
                   cell_id_to_index, current_molecule, data, cell_indices,
                   gene_indices, complete, entry_at>>

\* mapping quality below the threshold: continue
ScanLowMapq ==
    /\ pc = "scan"
    /\ sam_pos < MaxRecords
    /\ \E rec \in SamRecords :
        /\ ~MissingTag(rec)
        /\ LowMapq(rec, mapq_threshold)
        /\ sam_pos' = sam_pos + 1
        /\ complete' = Append(complete, Seen(rec, mapq_threshold))
    /\ UNCHANGED <<storeVars, saveVars, shardVars, pc, error, result, mapq_threshold, annotVars, n_cells,
                   cell_id_to_index, current_molecule, data, cell_indices,
                   gene_indices, entry_at>>

\* the record of the current molecule again: continue
ScanSameMolecule ==
    /\ pc = "scan"
    /\ sam_pos < MaxRecords
    /\ \E rec \in SamRecords :
        /\ ~MissingTag(rec)
        /\ ~LowMapq(rec, mapq_threshold)
        /\ SameMolecule(current_molecule, MoleculeKey(rec))
        /\ sam_pos' = sam_pos + 1
        /\ complete' = Append(complete, Seen(rec, mapq_threshold))
    /\ UNCHANGED <<storeVars, saveVars, shardVars, pc, error, result, mapq_threshold, annotVars, n_cells,
                   cell_id_to_index, current_molecule, data, cell_indices,
                   gene_indices, entry_at>>

\* ScanUnknownGene dropping the record instead of raising
ScanUnknownGene_skipping ==
    /\ pc = "scan"
    /\ sam_pos < MaxRecords
    /\ \E rec \in SamRecords :
        /\ ~MissingTag(rec)
        /\ ~LowMapq(rec, mapq_threshold)
        /\ ~SameMolecule(current_molecule, MoleculeKey(rec))
        /\ rec.gene \notin DOMAIN gene_id_to_index
        /\ sam_pos' = sam_pos + 1
        /\ complete' = Append(complete, Seen(rec, mapq_threshold))
    /\ UNCHANGED <<storeVars, saveVars, shardVars, pc, error, result, mapq_threshold, annotVars, n_cells,
                   cell_id_to_index, current_molecule, data, cell_indices,
                   gene_indices, entry_at>>

\* gene_id_to_index[gene] raises KeyError
ScanUnknownGene ==
    /\ pc = "scan"
    /\ sam_pos < MaxRecords
    /\ \E rec \in SamRecords :
        /\ ~MissingTag(rec)
        /\ ~LowMapq(rec, mapq_threshold)
        /\ ~SameMolecule(current_molecule, MoleculeKey(rec))
        /\ rec.gene \notin DOMAIN gene_id_to_index
        /\ sam_pos' = sam_pos + 1
        /\ complete' = Append(complete, Seen(rec, mapq_threshold))
    /\ pc' = "raised"
    /\ error' = "KeyError"
    /\ UNCHANGED <<storeVars, saveVars, shardVars, result, mapq_threshold, annotVars, n_cells, cell_id_to_index,
                   current_molecule, data, cell_indices, gene_indices, entry_at>>

\* a new molecule: its cell gets a row if it has none, one entry is appended
ScanEmit ==
    /\ pc = "scan"
    /\ sam_pos < MaxRecords
    /\ \E rec \in SamRecords :
        /\ ~MissingTag(rec)
        /\ ~LowMapq(rec, mapq_threshold)
        /\ ~SameMolecule(current_molecule, MoleculeKey(rec))
        /\ rec.gene \in DOMAIN gene_id_to_index
        /\ sam_pos' = sam_pos + 1
        /\ complete' = Append(complete, Seen(rec, mapq_threshold))
        /\ IF rec.cell \in DOMAIN cell_id_to_index
           THEN /\ cell_indices' = Append(cell_indices, cell_id_to_index[rec.cell])
                /\ UNCHANGED <<cell_id_to_index, n_cells>>
           ELSE /\ cell_indices' = Append(cell_indices, n_cells)
                /\ cell_id_to_index' = SetItem(cell_id_to_index, rec.cell, n_cells)
                /\ n_cells' = n_cells + 1
        /\ data' = Append(data, 1)
        /\ gene_indices' = Append(gene_indices, gene_id_to_index[rec.gene])
        /\ entry_at' = Append(entry_at, Len(complete) + 1)
        /\ current_molecule' = MoleculeKey(rec)
    /\ UNCHANGED <<storeVars, saveVars, shardVars, pc, error, result, mapq_threshold, annotVars>>

\* ------------------------------------------- end of the alignment stream

\* the coordinates fit the shape: the CountMatrix is returned
BuildMatrix ==
    /\ pc = "scan"
    /\ LET shape == Shape(cell_indices, gene_id_to_index) IN
        /\ CooInRange(cell_indices, gene_indices, shape)
        /\ result' = [matrix |-> CooToCsr(data, cell_indices, gene_indices, shape),
                      row_index |-> KeysByValue(cell_id_to_index),
                      col_index |-> KeysByValue(gene_id_to_index)]
    /\ pc' = "returned"
    /\ UNCHANGED <<storeVars, saveVars, shardVars, error, mapq_threshold, annotVars, scanVars>>

\* a coordinate lies outside the shape: sp.coo_matrix raises ValueError
BuildRaise ==
    /\ pc = "scan"
    /\ ~CooInRange(cell_indices, gene_indices, Shape(cell_indices, gene_id_to_index))
    /\ pc' = "raised"
    /\ error' = "ValueError"
    /\ UNCHANGED <<storeVars, saveVars, shardVars, result, mapq_threshold, annotVars, scanVars>>

Next ==
    \/ AnnotFiltered
    \/ AnnotGene
    \/ AnnotMalformed
    \/ AnnotEnd
    \/ ScanMissingTag
    \/ ScanLowMapq
    \/ ScanSameMolecule
    \/ ScanUnknownGene
    \/ ScanEmit
    \/ BuildMatrix
    \/ BuildRaise

Spec == Init /\ [][Next]_vars

\* ------------------------------------------------- persistence and merge

\* the sequences over S of length at most n
SeqsUpTo(S, n) == UNION {[1..k -> S] : k \in 0..n}

\* the matrices save is called on: up to MaxRows rows of one width
Matrices ==
    {[shape |-> <<Len(rows), w>>, rows |-> rows] :
        <<rows, w>> \in {x \in SeqsUpTo(RowVectors, MaxRows) \X {1, 2} :
                           \A i \in 1..Len(x[1]) : Len(x[1][i]) = x[2]}}

\* the CountMatrix objects save is called on; __init__ takes any matrix and
\* any two label arrays
CountMatrices ==
    [matrix : Matrices, row_index : SeqsUpTo(Cells, MaxRows), col_index : ColLabels]

RECURSIVE Concatenate_reversed(_)
\* Concatenate putting the later arrays first
Concatenate_reversed(arrays) ==
    IF arrays = <<>> THEN <<>>
    ELSE Concatenate_reversed(Tail(arrays)) \o Head(arrays)

RECURSIVE Concatenate(_)
\* np.concatenate(arrays), and the stacking of rows by sp.vstack
Concatenate(arrays) ==
    IF arrays = <<>> THEN <<>>
    ELSE Head(arrays) \o Concatenate(Tail(arrays))

\* the stored entries of a row of a compressed matrix: (column, value) of
\* each nonzero, by column
RowEntries(row) ==
    SelectSeq([c \in 1..Len(row) |-> <<c - 1, row[c]>>], LAMBDA x : x[2] # 0)

\* sp.save_npz: the arrays of the compressed-row format that are written
SaveNpz(matrix) ==
    LET entries(r) == RowEntries(matrix.rows[r])
        upto(r) == Concatenate([q \in 1..r |-> entries(q)])
        all == upto(matrix.shape[1])
    IN [format |-> "csr",
        shape |-> matrix.shape,
        data |-> [k \in 1..Len(all) |-> all[k][2]],
        indices |-> [k \in 1..Len(all) |-> all[k][1]],
        indptr |-> [r \in 1..(matrix.shape[1] + 1) |-> Len(upto(r - 1))]]

\* sp.load_npz: the matrix of the arrays read
LoadNpz(npz) ==
    [shape |-> npz.shape,
     rows |-> [r \in 1..npz.shape[1] |->
                 [c \in 1..npz.shape[2] |->
                     IF \E k \in (npz.indptr[r] + 1)..npz.indptr[r + 1] :
                            npz.indices[k] = c - 1
                     THEN npz.data[CHOOSE k \in (npz.indptr[r] + 1)..npz.indptr[r + 1] :
                                       npz.indices[k] = c - 1]
                     ELSE 0]]]

\* sp.vstack(matrices, format='csr') accepts one or more blocks of one width
VstackAccepts(matrices) ==
    /\ matrices # <<>>
    /\ \A i \in 1..Len(matrices) : matrices[i].shape[2] = matrices[1].shape[2]

\* sp.vstack(matrices, format='csr')
Vstack(matrices) ==
    LET rows == Concatenate([i \in 1..Len(matrices) |-> matrices[i].rows])
    IN [shape |-> <<Len(rows), matrices[1].shape[2]>>, rows |-> rows]

\* np.load and sp.load_npz raise when the file does not exist
AllFilesExist(fs, prefixes) ==
    \A i \in 1..Len(prefixes) :
        /\ fs[prefixes[i]].col_index # NoFile
        /\ fs[prefixes[i]].row_index # NoFile
        /\ fs[prefixes[i]].npz # NoFile

\* MergeMatrices taking the row labels of every input from the first input
MergeMatrices_first_labels(fs, prefixes) ==
    IF ~AllFilesExist(fs, prefixes)
    THEN [error |-> "FileNotFoundError", value |-> None]
    ELSE LET col_indices == [i \in 1..Len(prefixes) |-> Content(fs[prefixes[i]].col_index)]
             row_indices == [i \in 1..Len(prefixes) |-> Content(fs[prefixes[1]].row_index)]
             matrices == [i \in 1..Len(prefixes) |-> LoadNpz(Content(fs[prefixes[i]].npz))]
         IN IF ~VstackAccepts(matrices)
            THEN [error |-> "ValueError", value |-> None]
            ELSE [error |-> None,
                  value |-> [matrix |-> Vstack(matrices),
                             row_index |-> Concatenate(row_indices),
                             col_index |-> col_indices[1]]]

\* CountMatrix.merge_matrices(input_prefixes): the exception raised, or the
\* CountMatrix returned
MergeMatrices(fs, prefixes) ==
    IF ~AllFilesExist(fs, prefixes)
    THEN [error |-> "FileNotFoundError", value |-> None]
    ELSE LET col_indices == [i \in 1..Len(prefixes) |-> Content(fs[prefixes[i]].col_index)]
             row_indices == [i \in 1..Len(prefixes) |-> Content(fs[prefixes[i]].row_index)]
             matrices == [i \in 1..Len(prefixes) |-> LoadNpz(Content(fs[prefixes[i]].npz))]
         IN IF ~VstackAccepts(matrices)
            THEN [error |-> "ValueError", value |-> None]
            ELSE [error |-> None,
                  value |-> [matrix |-> Vstack(matrices),
                             row_index |-> Concatenate(row_indices),
                             col_index |-> col_indices[1]]]

\* SaveFiles writing each label array to the file of the other
SaveFiles_swapped(self) ==
    [npz |-> File(SaveNpz(self.matrix)), row_index |-> File(self.col_index),
     col_index |-> File(self.row_index)]

\* CountMatrix.save(prefix): the three files self is written to
SaveFiles(self) ==
    [npz |-> File(SaveNpz(self.matrix)), row_index |-> File(self.row_index),
     col_index |-> File(self.col_index)]

\* no file under a prefix
NoFiles == [npz |-> NoFile, row_index |-> NoFile, col_index |-> NoFile]

\* CountMatrix.merge_matrices(input_prefixes)
Merge ==
    /\ op = "none"
    /\ \E prefixes \in SeqsUpTo(Prefixes, MaxInputs) :
        LET r == MergeMatrices(files, prefixes) IN
        /\ input_prefixes' = prefixes
        /\ merged' = r.value
        /\ merge_error' = r.error
    /\ op' = "merge"
    /\ UNCHANGED <<files, bamVars, saveVars, shardVars>>

\* before merge_matrices is called: under each prefix nothing, or the files
\* of a saved CountMatrix
MergeInit ==
    /\ BamInit
    /\ mapq_threshold = 0
    /\ files \in [Prefixes -> {NoFiles} \cup {SaveFiles(self) : self \in CountMatrices}]
    /\ op = "none"
    /\ input_prefixes = <<>>
    /\ merged = None
    /\ merge_error = None
    /\ files0 = files
    /\ SaveIdle
    /\ ShardIdle

MergeNext == Merge

\* one call of merge_matrices on saved matrices
SpecMerge == MergeInit /\ [][MergeNext]_vars

\* ----------------------------------------------------------- save and load

\* SaveOrder writing the label arrays before the matrix
SaveOrder_labels_first == <<"row_index", "col_index", "npz">>

\* the files in the order save writes them
SaveOrder == <<"npz", "row_index", "col_index">>

\* LoadCountMatrix taking a missing file for an empty array
LoadCountMatrix_unchecked(fs, prefix) ==
    LET read(file) == IF file = NoFile THEN <<>> ELSE Content(file)
    IN [error |-> None,
        value |-> [matrix |-> IF fs[prefix].npz = NoFile
                              THEN [shape |-> <<0, 0>>, rows |-> <<>>]
                              ELSE LoadNpz(Content(fs[prefix].npz)),
                   row_index |-> read(fs[prefix].row_index),
                   col_index |-> read(fs[prefix].col_index)]]

\* CountMatrix.load(prefix): the exception raised, or the CountMatrix returned
LoadCountMatrix(fs, prefix) ==
    IF ~AllFilesExist(fs, <<prefix>>)
    THEN [error |-> "FileNotFoundError", value |-> None]
    ELSE [error |-> None,
          value |-> [matrix |-> LoadNpz(Content(fs[prefix].npz)),
                     row_index |-> Content(fs[prefix].row_index),
                     col_index |-> Content(fs[prefix].col_index)]]

\* self.save(prefix) is called
SaveBegin ==
    /\ saving.state = "idle"
    /\ load_prefix = None
    /\ \E prefix \in Prefixes, self \in CountMatrices :
        saving' = [state |-> "running", prefix |-> prefix, self |-> self, written |-> 0]
    /\ UNCHANGED <<bamVars, shardVars, storeVars, files0, loaded, load_error, load_prefix>>

\* save writes its next file; after the third it returns
SaveWrite ==
    /\ saving.state = "running"
    /\ LET name == SaveOrder[saving.written + 1] IN
        files' = [files EXCEPT ![saving.prefix][name] = SaveFiles(saving.self)[name]]
    /\ saving' = [saving EXCEPT !.written = @ + 1,
                                !.state = IF saving.written + 1 = Len(SaveOrder)
                                          THEN "done" ELSE "running"]
    /\ UNCHANGED <<bamVars, shardVars, op, input_prefixes, merged, merge_error,
                   files0, loaded, load_error, load_prefix>>

\* the process is stopped before save has written all its files
SaveInterrupt ==
    /\ saving.state = "running"
    /\ saving' = [saving EXCEPT !.state = "interrupted"]
    /\ UNCHANGED <<bamVars, shardVars, storeVars, files0, loaded, load_error, load_prefix>>

\* CountMatrix.load(prefix), while no save is running
Load ==
    /\ saving.state # "running"
    /\ load_prefix = None
    /\ \E prefix \in Prefixes :
        LET r == LoadCountMatrix(files, prefix) IN
        /\ load_prefix' = prefix
        /\ loaded' = r.value
        /\ load_error' = r.error
    /\ UNCHANGED <<bamVars, shardVars, storeVars, files0, saving>>

\* before save is called: prefix p1 holds nothing or the files of a saved
\* CountMatrix, the other prefixes hold nothing
SaveInit ==
    /\ BamInit
    /\ mapq_threshold = 0
    /\ \E old \in {NoFiles} \cup {SaveFiles(self) : self \in CountMatrices} :
        files = [p \in Prefixes |-> IF p = "p1" THEN old ELSE NoFiles]
    /\ op = "none"
    /\ input_prefixes = <<>>
    /\ merged = None
    /\ merge_error = None
    /\ files0 = files
    /\ SaveIdle
    /\ ShardIdle

SaveNext ==
    \/ SaveBegin
    \/ SaveWrite
    \/ SaveInterrupt
    \/ Load

\* one call of save, possibly interrupted, and one call of load
SpecSave == SaveInit /\ [][SaveNext]_vars

\* ------------------------------------------------- from_bam as a function

RECURSIVE GeneIdToIndex(_)
\* the annotation loop over the gene records of the given names
GeneIdToIndex(names) ==
    IF names = <<>> THEN EmptyDict
    ELSE SetItem(GeneIdToIndex(SubSeq(names, 1, Len(names) - 1)),
                 names[Len(names)], Len(names) - 1)

\* the variables of the alignment loop before the first record
ScanStart ==
    [n_cells |-> 0, cell_id_to_index |-> EmptyDict, current_molecule |-> <<>>,
     data |-> <<>>, cell_indices |-> <<>>, gene_indices |-> <<>>, error |-> None]

\* one iteration of the alignment loop
ScanRecord(st, rec, g2i, threshold) ==
    IF st.error # None THEN st
    ELSE IF MissingTag(rec) THEN st
    ELSE IF LowMapq(rec, threshold) THEN st
    ELSE IF SameMolecule(st.current_molecule, MoleculeKey(rec)) THEN st
    ELSE IF rec.gene \notin DOMAIN g2i THEN [st EXCEPT !.error = "KeyError"]
    ELSE LET known == rec.cell \in DOMAIN st.cell_id_to_index
             cell_index == IF known THEN st.cell_id_to_index[rec.cell] ELSE st.n_cells
         IN [n_cells |-> IF known THEN st.n_cells ELSE st.n_cells + 1,
             cell_id_to_index |-> IF known THEN st.cell_id_to_index
                                  ELSE SetItem(st.cell_id_to_index, rec.cell, st.n_cells),
             current_molecule |-> MoleculeKey(rec),
             data |-> Append(st.data, 1),
             cell_indices |-> Append(st.cell_indices, cell_index),
             gene_indices |-> Append(st.gene_indices, g2i[rec.gene]),
             error |-> None]

RECURSIVE ScanAll(_, _, _)
\* the alignment loop over the records
ScanAll(records, g2i, threshold) ==
    IF records = <<>> THEN ScanStart
    ELSE ScanRecord(ScanAll(SubSeq(records, 1, Len(records) - 1), g2i, threshold),
                    records[Len(records)], g2i, threshold)

\* CountMatrix.from_bam: the exception raised, or the CountMatrix returned
FromBam(names, records, threshold) ==
    IF \E i \in 1..Len(names) : MissingGeneName([gene_name |-> names[i]])
    THEN [error |-> "ValueError", value |-> None]
    ELSE LET g2i == GeneIdToIndex(names)
             st == ScanAll(records, g2i, threshold)
             shape == Shape(st.cell_indices, g2i)
         IN IF st.error # None THEN [error |-> st.error, value |-> None]
            ELSE IF ~CooInRange(st.cell_indices, st.gene_indices, shape)
            THEN [error |-> "ValueError", value |-> None]
            ELSE [error |-> None,
                  value |-> [matrix |-> CooToCsr(st.data, st.cell_indices,
                                                 st.gene_indices, shape),
                             row_index |-> KeysByValue(st.cell_id_to_index),
                             col_index |-> KeysByValue(g2i)]]

\* ------------------------------------------------------------ sharded runs

\* the alignment records of a sharded run: all tags present, accepted
ShardRecords ==
    {rec \in SamRecords : ~MissingTag(rec) /\ rec.mapping_quality = 1}

\* the prefix the matrix of each shard is saved under
ShardPrefixes == <<"p1", "p2">>

\* from_bam on the whole input
CountWhole ==
    /\ shard_pc = "start"
    /\ whole' = FromBam(annotation, stream, mapq_threshold)
    /\ shard_pc' = "whole"
    /\ UNCHANGED <<bamVars, storeVars, saveVars, annotation, stream, shards,
                   shard_results>>

\* the input is split into two consecutive shards; from_bam on each shard
\* with the same annotation, and save of each matrix returned
CountShards ==
    /\ shard_pc = "whole"
    /\ \E cut \in 0..Len(stream) :
        shards' = <<SubSeq(stream, 1, cut), SubSeq(stream, cut + 1, Len(stream))>>
    /\ shard_results' =
          [i \in 1..Len(ShardPrefixes) |-> FromBam(annotation, shards'[i], mapq_threshold)]
    /\ files' = [p \in Prefixes |->
                   IF \E i \in 1..Len(ShardPrefixes) :
                          ShardPrefixes[i] = p /\ shard_results'[i].error = None
                   THEN SaveFiles(shard_results'[CHOOSE i \in 1..Len(ShardPrefixes) :
                                                     ShardPrefixes[i] = p].value)
                   ELSE files[p]]
    /\ shard_pc' = "counted"
    /\ UNCHANGED <<bamVars, saveVars, op, input_prefixes, merged, merge_error,
                   annotation, stream, whole>>

\* merge_matrices on the prefixes of the shards, in shard order
MergeShards ==
    /\ shard_pc = "counted"
    /\ LET r == MergeMatrices(files, ShardPrefixes) IN
        /\ input_prefixes' = ShardPrefixes
        /\ merged' = r.value
        /\ merge_error' = r.error
    /\ op' = "merge"
    /\ shard_pc' = "merged"
    /\ UNCHANGED <<bamVars, saveVars, files, annotation, stream, whole, shards,
                   shard_results>>

\* before a sharded run: an annotation, an alignment stream, no files
ShardInit ==
    /\ BamInit
    /\ mapq_threshold = 0
    /\ files = [p \in Prefixes |-> NoFiles]
    /\ op = "none"
    /\ input_prefixes = <<>>
    /\ merged = None
    /\ merge_error = None
    /\ files0 = files
    /\ SaveIdle
    /\ annotation \in SeqsUpTo(Genes, MaxAnnot)
    /\ stream \in SeqsUpTo(ShardRecords, MaxRecords)
    /\ shard_pc = "start"
    /\ whole = NoOutcome
    /\ shards = <<>>
    /\ shard_results = <<>>

ShardNext ==
    \/ CountWhole
    \/ CountShards
    \/ MergeShards

\* from_bam on a whole input, and on its two shards followed by merge_matrices
SpecShard == ShardInit /\ [][ShardNext]_vars

\* ------------------------------------------------ vocabulary of the claims

\* positions in the history of the accepted records: all three tags present
\* and mapping quality >= mapq_threshold
AccPos == {i \in 1..Len(complete) : complete[i].accepted}

KeyAt(i) == <<complete[i].gene, complete[i].cell, complete[i].molecule>>

\* the accepted record before position i, 0 if there is none
PrevAcc(i) ==
    IF \E j \in AccPos : j < i
    THEN CHOOSE j \in AccPos : j < i /\ \A k \in AccPos : k < i => k <= j
    ELSE 0

\* the scan got past record i: it is not the record the scan aborted on
Processed(i) == ~(pc = "raised" /\ error = "KeyError" /\ i = Len(complete))

\* the entries whose record lies at one of the positions S
EntriesAt(S) == {e \in 1..Len(entry_at) : entry_at[e] \in S}

\* the entries emitted for molecule key k by the records up to position q
EntriesFor(k, q) == {e \in 1..Len(entry_at) : entry_at[e] <= q /\ KeyAt(entry_at[e]) = k}

\* all accepted records of each key are contiguous among the accepted records
Contiguous ==
    \A i, j \in AccPos :
        (i < j /\ KeyAt(i) = KeyAt(j)) =>
            \A k \in AccPos : (i < k /\ k < j) => KeyAt(k) = KeyAt(i)

\* the distinct molecules of cell c and gene g that an accepted record supports
MoleculesOf(g, c) == {m \in Molecules : \E i \in AccPos : KeyAt(i) = <<g, c, m>>}

\* positions a..b hold a run: every accepted record in a..b has the key of a,
\* and the accepted record before a, if any, has another key
IsRun(a, b) ==
    /\ a \in AccPos /\ b \in AccPos /\ a <= b
    /\ \A k \in AccPos : (a <= k /\ k <= b) => KeyAt(k) = KeyAt(a)
    /\ PrevAcc(a) # 0 => KeyAt(PrevAcc(a)) # KeyAt(a)

\* ------------------------------------------------------------------ claims

\* C1: the shape of the returned matrix is (number of row labels, number of
\* column labels). The code declares len(cell_indices) rows, one per entry,
\* so this fails as soon as a cell has two molecules.
C1_ShapeMatchesLabels ==
    pc = "returned" =>
        result.matrix.shape = <<Len(result.row_index), Len(result.col_index)>>

\* C2: when the accepted records of each key are contiguous, every accepted
\* record's cell has a row and its gene a column of the returned matrix, and
\* the value at (row of cell c, column of gene g), the row and the column being
\* the indices of the CellIndex and of the GeneIndex, is the number of distinct
\* molecules of (g, c) that an accepted record supports.
C2_CountsDistinctMolecules ==
    (pc = "returned" /\ Contiguous) =>
        /\ \A i \in AccPos :
            /\ complete[i].cell \in DOMAIN cell_id_to_index
            /\ complete[i].gene \in DOMAIN gene_id_to_index
            /\ cell_id_to_index[complete[i].cell] < result.matrix.shape[1]
            /\ gene_id_to_index[complete[i].gene] < result.matrix.shape[2]
        /\ \A c \in DOMAIN cell_id_to_index : \A g \in DOMAIN gene_id_to_index :
            gene_id_to_index[g] < result.matrix.shape[2] =>
                result.matrix.rows[cell_id_to_index[c] + 1][gene_id_to_index[g] + 1]
                    = Cardinality(MoleculesOf(g, c))

\* C2 witness: three accepted records, two molecules of one cell and gene,
\* one of them supported by two contiguous records, counted 2
C2_Witness ==
    /\ pc = "returned" /\ Contiguous
    /\ Cardinality(AccPos) = 3
    /\ \E c \in DOMAIN cell_id_to_index : \E g \in DOMAIN gene_id_to_index :
        /\ gene_id_to_index[g] < result.matrix.shape[2]
        /\ Cardinality(MoleculesOf(g, c)) = 2
        /\ result.matrix.rows[cell_id_to_index[c] + 1][gene_id_to_index[g] + 1] = 2

\* C3: a run of k >= 1 contiguous accepted records of one key, the accepted
\* record before it having another key, emits exactly one entry (at its first
\* record), with count 1 at (row of the cell, column of the gene).
C3_RunEmitsOneEntry ==
    \A a, b \in AccPos :
        (IsRun(a, b) /\ Processed(a)) =>
            /\ Cardinality(EntriesAt(a..b)) = 1
            /\ \A e \in EntriesAt(a..b) :
                /\ entry_at[e] = a
                /\ data[e] = 1
                /\ cell_indices[e] = cell_id_to_index[complete[a].cell]
                /\ gene_indices[e] = gene_id_to_index[complete[a].gene]

\* C3 witness: a run of three records after which the buffer holds one entry
C3_Witness ==
    /\ Cardinality(AccPos) = 3
    /\ IsRun(1, 3)
    /\ Len(data) = 1

\* C4 (as amended): the same key on two accepted records p < q, with an
\* ACCEPTED record of another key strictly between them, q processed: at
\* least two entries are emitted for the key, exactly two when p and q are
\* its only accepted records.
C4_NonContiguousCountsTwice ==
    \A p, q \in AccPos :
        (/\ p < q /\ KeyAt(p) = KeyAt(q) /\ Processed(q)
         /\ \E r \in AccPos : p < r /\ r < q /\ KeyAt(r) # KeyAt(p)) =>
            /\ Cardinality(EntriesFor(KeyAt(p), q)) >= 2
            /\ {i \in AccPos : KeyAt(i) = KeyAt(p)} = {p, q} =>
                   Cardinality(EntriesFor(KeyAt(p), q)) = 2

\* C4 witness: key, another key, key again, all accepted: two entries for it
C4_Witness ==
    /\ AccPos = {1, 2, 3}
    /\ KeyAt(1) = KeyAt(3) /\ KeyAt(2) # KeyAt(1)
    /\ Cardinality(EntriesFor(KeyAt(1), 3)) = 2

\* C4 as stated: a TAG-COMPLETE record of another key strictly between the
\* two accepted records is enough for two entries. A record below the
\* mapping-quality threshold does not reset current_molecule.
C4_Original ==
    \A p, q \in AccPos :
        (/\ p < q /\ KeyAt(p) = KeyAt(q) /\ Processed(q)
         /\ \E r \in 1..Len(complete) : p < r /\ r < q /\ KeyAt(r) # KeyAt(p)) =>
            Cardinality(EntriesFor(KeyAt(p), q)) >= 2

\* the cell of the record that emitted entry e
EntryCell(e) == complete[entry_at[e]].cell

\* the cells of the records that emitted an entry
EmittedCells == {EntryCell(e) : e \in 1..Len(entry_at)}

\* the first entry of cell c
FirstEntry(c) ==
    CHOOSE e \in 1..Len(entry_at) :
        EntryCell(e) = c /\ \A f \in 1..(e - 1) : EntryCell(f) # c

\* the number of distinct cells first seen before cell c
SeenRank(c) ==
    Cardinality({d \in EmittedCells : FirstEntry(d) < FirstEntry(c)})

C5_FirstSeenOrder ==
    /\ DOMAIN cell_id_to_index = EmittedCells
    /\ n_cells = Cardinality(EmittedCells)
    /\ \A c \in EmittedCells : cell_id_to_index[c] = SeenRank(c)
    /\ pc = "returned" =>
        /\ Len(result.row_index) = n_cells
        /\ \A c \in EmittedCells : result.row_index[SeenRank(c) + 1] = c

C5_IndexStable ==
    \A c \in DOMAIN cell_id_to_index :
        c \in DOMAIN cell_id_to_index' /\ cell_id_to_index'[c] = cell_id_to_index[c]

\* C5: at every point of the scan the CellIndex maps the k-th distinct cell
\* (first-seen order among the records that emitted an entry, k from 0) to
\* row index k, no step changes or removes an assigned index, and the row
\* labels returned are the cells in that order.
C5_FirstSeenRows == []C5_FirstSeenOrder /\ [][C5_IndexStable]_vars

\* C5 witness: cells seen in the order c2, c1, c2 give row labels [c2, c1]
C5_Witness ==
    /\ pc = "returned"
    /\ Len(entry_at) = 3
    /\ EntryCell(1) = "c2" /\ EntryCell(2) = "c1" /\ EntryCell(3) = "c2"
    /\ result.row_index = <<"c2", "c1">>

\* no record read so far is valid (tag-complete and of sufficient quality)
NoValid == AccPos = {}

\* C6: as long as no valid record was read, no entry is emitted; the end of
\* such a stream returns a matrix of shape (0, num_genes) and raises nothing
\* (a raise with no valid record read is the annotation's, before the scan).
C6_NoValidRecords ==
    NoValid =>
        /\ data = <<>> /\ cell_indices = <<>> /\ gene_indices = <<>>
        /\ pc = "scan" => (ENABLED BuildMatrix /\ ~ENABLED BuildRaise)
        /\ pc = "returned" =>
            /\ result.matrix.shape = <<0, Cardinality(DOMAIN gene_id_to_index)>>
            /\ result.matrix.rows = <<>>
        /\ pc = "raised" => (sam_pos = 0 /\ error = "ValueError")

\* C6 witness: a stream of a record without a tag and a record of low
\* quality, two genes: shape (0, 2)
C6_Witness ==
    /\ pc = "returned" /\ NoValid
    /\ Len(complete) >= 1 /\ sam_pos > Len(complete)
    /\ result.matrix.shape = <<0, 2>>

\* C7: an accepted record whose gene is not in the GeneIndex is the last
\* record read: the scan raised KeyError on it and returned nothing; it
\* emitted no entry and allocated no row (the CellIndex holds the cells of
\* the emitted entries only).
C7_UnknownGeneAborts ==
    /\ \A i \in AccPos :
        complete[i].gene \notin DOMAIN gene_id_to_index =>
            /\ pc = "raised" /\ error = "KeyError" /\ result = None
            /\ i = Len(complete)
    /\ (pc = "raised" /\ error = "KeyError") =>
        /\ Len(complete) \in AccPos
        /\ complete[Len(complete)].gene \notin DOMAIN gene_id_to_index
        /\ EntriesAt({Len(complete)}) = {}
        /\ DOMAIN cell_id_to_index = EmittedCells
        /\ n_cells = Cardinality(EmittedCells)
        /\ result = None

\* C7 witness: after one emitted entry, a record of an unknown gene and of a
\* cell without a row aborts the scan
C7_Witness ==
    /\ pc = "raised" /\ error = "KeyError"
    /\ Len(data) >= 1
    /\ complete[Len(complete)].cell \notin DOMAIN cell_id_to_index

\* C8: the GeneIndex is a bijection from its identifiers onto
\* [0, num_genes), the indices follow the order of the gene records, and the
\* column label at position i is the identifier of index i. The code gives a
\* gene_name that occurs twice the index of its last record, which leaves a
\* hole in the indices.
C8_GeneIndexBijection ==
    pc \in {"scan", "returned"} =>
        /\ {gene_id_to_index[g] : g \in DOMAIN gene_id_to_index}
               = 0..(Cardinality(DOMAIN gene_id_to_index) - 1)
        /\ \A g \in DOMAIN gene_id_to_index : retained[gene_id_to_index[g] + 1] = g
        /\ pc = "returned" =>
            \A g \in DOMAIN gene_id_to_index :
                /\ gene_id_to_index[g] + 1 \in DOMAIN result.col_index
                /\ result.col_index[gene_id_to_index[g] + 1] = g

\* C9: a gene record without gene_name is the last record the annotation
\* loop read: from_bam raised ValueError on it, before any alignment record
\* was read, and returned nothing; an annotation error has no other cause.
C9_MalformedAnnotationAborts ==
    /\ \A i \in 1..Len(retained) :
        retained[i] = None =>
            /\ i = Len(retained)
            /\ pc = "raised" /\ error = "ValueError" /\ result = None
            /\ sam_pos = 0 /\ complete = <<>> /\ data = <<>>
            /\ None \notin DOMAIN gene_id_to_index
    /\ (pc = "raised" /\ sam_pos = 0) =>
        /\ error = "ValueError"
        /\ retained # <<>>
        /\ retained[Len(retained)] = None

\* C9 witness: a gene record with a name, then one without
C9_Witness ==
    /\ pc = "raised" /\ error = "ValueError"
    /\ Len(retained) = 2
    /\ retained[1] # None /\ retained[2] = None
    /\ sam_pos = 0

\* the i-th input of the merge: its matrix, its row labels, its column labels
InMatrix(i) == LoadNpz(Content(files[input_prefixes[i]].npz))
InRowIndex(i) == Content(files[input_prefixes[i]].row_index)
InColIndex(i) == Content(files[input_prefixes[i]].col_index)

RECURSIVE RowsBefore(_)
\* the number of matrix rows of the inputs before the i-th
RowsBefore(i) == IF i <= 1 THEN 0 ELSE RowsBefore(i - 1) + InMatrix(i - 1).shape[1]

RECURSIVE LabelsBefore(_)
\* the number of row labels of the inputs before the i-th
LabelsBefore(i) == IF i <= 1 THEN 0 ELSE LabelsBefore(i - 1) + Len(InRowIndex(i - 1))

\* merge_matrices was called on one or more saved matrices of identical
\* column labels and of one column count
MergeOfAlike ==
    /\ op = "merge"
    /\ input_prefixes # <<>>
    /\ \A i \in 1..Len(input_prefixes) :
        /\ files[input_prefixes[i]].npz # NoFile
        /\ files[input_prefixes[i]].row_index # NoFile
        /\ files[input_prefixes[i]].col_index # NoFile
    /\ \A i \in 1..Len(input_prefixes) :
        /\ InColIndex(i) = InColIndex(1)
        /\ InMatrix(i).shape[2] = InMatrix(1).shape[2]

C10_StackedInOrder ==
    MergeOfAlike =>
        LET n == Len(input_prefixes) IN
        /\ merge_error = None
        /\ merged.matrix.shape = <<RowsBefore(n + 1), InMatrix(1).shape[2]>>
        /\ Len(merged.matrix.rows) = RowsBefore(n + 1)
        /\ \A i \in 1..n : \A r \in 1..InMatrix(i).shape[1] :
            merged.matrix.rows[RowsBefore(i) + r] = InMatrix(i).rows[r]
        /\ Len(merged.row_index) = LabelsBefore(n + 1)
        /\ \A i \in 1..n : \A k \in 1..Len(InRowIndex(i)) :
            merged.row_index[LabelsBefore(i) + k] = InRowIndex(i)[k]
        /\ merged.col_index = InColIndex(1)

C10_InputsKept == op' = "merge" => files' = files

\* C10: merging saved matrices of identical column labels and one column
\* count g returns a matrix of shape (sum of the inputs' row counts, g),
\* whose rows are the inputs' rows in input order, with the inputs' row labels
\* concatenated in input order and the column labels of the first input; the
\* files of the inputs are left as they were.
C10_MergeStacksRows == []C10_StackedInOrder /\ [][C10_InputsKept]_vars

\* C10 witness: two different one-row matrices of two columns under two
\* prefixes, merged into shape (2, 2) with both labels in order
C10_Witness ==
    /\ MergeOfAlike
    /\ input_prefixes = <<"p1", "p2">>
    /\ InMatrix(1).shape = <<1, 2>> /\ InMatrix(2).shape = <<1, 2>>
    /\ InMatrix(1).rows # InMatrix(2).rows
    /\ InRowIndex(1) = <<"c2">> /\ InRowIndex(2) = <<"c1">>
    /\ merged.matrix.shape = <<2, 2>>
    /\ merged.row_index = <<"c2", "c1">>

\* ------------------------------------------------------- skipped records

\* the step reads one alignment record
ReadsRecord == sam_pos' = sam_pos + 1

\* the record the step reads is skipped: a tag is absent (the history of the
\* tag-complete records does not grow), or its mapping quality is below the
\* threshold, or its key is the current molecule
ReadsSkipped ==
    /\ ReadsRecord
    /\ \/ complete' = complete
       \/ /\ Len(complete') = Len(complete) + 1
          /\ LET rec == complete'[Len(complete')] IN
                \/ ~rec.accepted
                \/ <<rec.gene, rec.cell, rec.molecule>> = current_molecule

\* C14: a step that reads a skipped record (a tag absent, mapping quality
\* below mapq_threshold, key equal to current_molecule) leaves
\* current_molecule, the CellIndex, the cell counter and the three coordinate
\* lists unchanged, raises nothing and stays in the scan.
C14_SkipChangesNothing ==
    [][ReadsSkipped =>
          /\ UNCHANGED <<current_molecule, cell_id_to_index, n_cells,
                         data, cell_indices, gene_indices>>
          /\ error' = None
          /\ pc' = "scan"]_vars

\* C14 witness: one entry, then a record of the same key, a record below the
\* threshold and nothing else: still one entry, one row, the same key
C14_Witness ==
    /\ pc = "scan" /\ error = None
    /\ sam_pos = 3 /\ Len(complete) = 3
    /\ entry_at = <<1>>
    /\ complete[2].accepted /\ KeyAt(2) = KeyAt(1)
    /\ ~complete[3].accepted /\ KeyAt(3) # KeyAt(1)
    /\ current_molecule = KeyAt(1)
    /\ n_cells = 1 /\ data = <<1>>

\* ------------------------------------------------------ coordinate ranges

\* C17: at every point of the scan each entry has count 1, a row index in
\* [0, declared rows) and a column index in [0, declared columns), the
\* declared shape being the one handed to sp.coo_matrix; the construction
\* never raises for a coordinate out of range. The column index of a gene
\* whose gene_name occurs twice in the annotation is outside the range.
C17_EntriesInRange ==
    /\ \A e \in 1..Len(data) :
        /\ data[e] = 1
        /\ cell_indices[e] >= 0
        /\ cell_indices[e] < Shape(cell_indices, gene_id_to_index)[1]
        /\ gene_indices[e] >= 0
        /\ gene_indices[e] < Shape(cell_indices, gene_id_to_index)[2]
    /\ pc = "scan" =>
        CooInRange(cell_indices, gene_indices, Shape(cell_indices, gene_id_to_index))

\* -------------------------------------------------- the current molecule

\* the accepted records the scan got past, in the order read: the record an
\* unknown gene aborted the scan on is the last one read and is left out
AccDone ==
    SelectSeq(IF pc = "raised" /\ error = "KeyError"
              THEN SubSeq(complete, 1, Len(complete) - 1) ELSE complete,
              LAMBDA rec : rec.accepted)

\* the positions in AccDone whose key differs from the key before them
KeyChanges ==
    LET acc == AccDone
    IN {p \in 1..Len(acc) :
           p = 1 \/ <<acc[p - 1].gene, acc[p - 1].cell, acc[p - 1].molecule>>
                      # <<acc[p].gene, acc[p].cell, acc[p].molecule>>}

\* C18: current_molecule is the sentinel tuple() exactly while no entry was
\* emitted, and the key of the last entry otherwise
C18_LastKey ==
    /\ current_molecule = <<>> <=> Len(entry_at) = 0
    /\ \A k \in Genes \X Cells \X Molecules : k # <<>>
    /\ Len(entry_at) > 0 => current_molecule = KeyAt(entry_at[Len(entry_at)])

\* C18: the first accepted record emits an entry, two entries in a row have
\* different keys, and there are as many entries as accepted records whose
\* key differs from the key of the accepted record before them
C18_Consequences ==
    /\ Len(AccDone) > 0 =>
          /\ Len(entry_at) > 0
          /\ complete[entry_at[1]].accepted
          /\ \A j \in 1..(entry_at[1] - 1) : ~complete[j].accepted
    /\ \A e \in 1..(Len(entry_at) - 1) : KeyAt(entry_at[e]) # KeyAt(entry_at[e + 1])
    /\ Len(data) = Cardinality(KeyChanges)
    /\ Len(entry_at) = Len(data)

\* C18: the scan's invariant on current_molecule, at every point of the scan
\* (the record an unknown gene aborted the scan on emits nothing)
C18_CurrentMolecule == C18_LastKey /\ C18_Consequences

\* C18 witness: three accepted records, the first two of one key, the third
\* of another: two entries, current_molecule is the key of the third
C18_Witness ==
    /\ pc = "scan"
    /\ AccPos = {1, 2, 3}
    /\ KeyAt(1) = KeyAt(2) /\ KeyAt(3) # KeyAt(2)
    /\ entry_at = <<1, 3>>
    /\ current_molecule = KeyAt(3)

\* ------------------------------------------------------------ save and load

\* what the files under the prefix held before save was called
Before == LoadCountMatrix(files0, saving.prefix)

\* load was called on the prefix of the save call, after it
LoadedSaved == saving.state # "idle" /\ load_prefix = saving.prefix

\* the number of rows and of columns of m is the number of its labels
Consistent(m) == m.matrix.shape = <<Len(m.row_index), Len(m.col_index)>>

\* C11: load(prefix) after a completed save(prefix) of M returns M: the same
\* matrix, the same row labels and the same column labels, in the same order.
C11_LoadReturnsSaved ==
    (saving.state = "done" /\ LoadedSaved) =>
        /\ load_error = None
        /\ loaded.matrix = saving.self.matrix
        /\ loaded.row_index = saving.self.row_index
        /\ loaded.col_index = saving.self.col_index

\* C11 witness: a matrix of one row and two columns with a zero, saved over
\* the files of another matrix and loaded again
C11_Witness ==
    /\ saving.state = "done" /\ LoadedSaved
    /\ Before.error = None /\ Before.value # saving.self
    /\ loaded = saving.self
    /\ loaded.matrix.rows = <<(<<0, 1>>)>>
    /\ loaded.row_index = <<"c2">>
    /\ loaded.col_index = <<"gB", "gA">>

\* C12: load(prefix) raises and returns nothing when one of the three files
\* under the prefix is missing; so it does after a save to a prefix without
\* files that was interrupted before its third write.
C12_MissingFileFails ==
    /\ (load_prefix # None /\ \E name \in {"npz", "row_index", "col_index"} :
                                  files[load_prefix][name] = NoFile) =>
            (load_error # None /\ loaded = None)
    /\ (/\ saving.state = "interrupted" /\ LoadedSaved
        /\ files0[saving.prefix] = NoFiles) =>
            (load_error # None /\ loaded = None)

\* C12 witness: a save to a prefix without files interrupted after its second
\* write, then load fails
C12_Witness ==
    /\ saving.state = "interrupted" /\ LoadedSaved
    /\ files0[saving.prefix] = NoFiles
    /\ saving.written = 2
    /\ files[saving.prefix].npz # NoFile
    /\ files[saving.prefix].row_index # NoFile
    /\ files[saving.prefix].col_index = NoFile
    /\ load_error = "FileNotFoundError" /\ loaded = None

\* C13: the files are written one at a time in the order matrix, row labels,
\* column labels: after k writes the first k are those of self and the
\* others are as before the call
C13_WrittenInOrder ==
    saving.state # "idle" =>
        /\ files[saving.prefix].npz =
              IF saving.written >= 1 THEN File(SaveNpz(saving.self.matrix))
              ELSE files0[saving.prefix].npz
        /\ files[saving.prefix].row_index =
              IF saving.written >= 2 THEN File(saving.self.row_index)
              ELSE files0[saving.prefix].row_index
        /\ files[saving.prefix].col_index =
              IF saving.written >= 3 THEN File(saving.self.col_index)
              ELSE files0[saving.prefix].col_index
        /\ \A p \in Prefixes \ {saving.prefix} : files[p] = files0[p]

\* C13: a save of M2 over the complete files of M1, interrupted after one or
\* two writes: load succeeds and returns the matrix of M2 with the column
\* labels of M1, and with the row labels of M1 after one write
C13_LoadMixes ==
    (/\ saving.state = "interrupted" /\ LoadedSaved
     /\ saving.written \in {1, 2}
     /\ Before.error = None) =>
        /\ load_error = None
        /\ loaded.matrix = saving.self.matrix
        /\ loaded.col_index = Before.value.col_index
        /\ saving.written = 1 => loaded.row_index = Before.value.row_index
        /\ saving.written = 2 => loaded.row_index = saving.self.row_index

\* C13: save is not atomic
C13_InterruptedSaveMixes == C13_WrittenInOrder /\ C13_LoadMixes

\* C13 witness: M1 and M2 are consistent, the save of M2 over M1 is
\* interrupted after one write, and what load returns is not: the matrix of
\* M2 has no row, the row labels of M1 name one
C13_Witness ==
    /\ saving.state = "interrupted" /\ LoadedSaved
    /\ saving.written = 1
    /\ Before.error = None
    /\ Consistent(Before.value) /\ Consistent(saving.self)
    /\ load_error = None
    /\ ~Consistent(loaded)
    /\ loaded.matrix = saving.self.matrix
    /\ loaded.matrix # Before.value.matrix
    /\ loaded.row_index = Before.value.row_index
    /\ loaded.row_index # saving.self.row_index

\* ------------------------------------------------------------ sharded runs

\* the position of a name in the order the input is sorted by
Rank(name) ==
    CASE name \in {"gA", "c1", "m1"} -> 1
      [] name \in {"gB", "c2", "m2"} -> 2

\* record a is not after record b in the order (cell, molecule, gene), the
\* gene varying fastest
SortKeyLeq(a, b) ==
    \/ Rank(a.cell) < Rank(b.cell)
    \/ /\ a.cell = b.cell
       /\ \/ Rank(a.molecule) < Rank(b.molecule)
          \/ a.molecule = b.molecule /\ Rank(a.gene) <= Rank(b.gene)

\* the stream is sorted by (cell, molecule, gene)
Sorted(records) ==
    \A i \in 1..(Len(records) - 1) : SortKeyLeq(records[i], records[i + 1])

\* the cell barcodes of the records
CellsOf(records) == {records[i].cell : i \in 1..Len(records)}

\* no cell barcode occurs in two shards
CellsApart ==
    \A i, j \in 1..Len(shards) : i # j => CellsOf(shards[i]) \cap CellsOf(shards[j]) = {}

\* the genes of the records
GenesOf(records) == {records[i].gene : i \in 1..Len(records)}

\* no gene occurs in two shards
GenesApart ==
    \A i, j \in 1..Len(shards) : i # j => GenesOf(shards[i]) \cap GenesOf(shards[j]) = {}

\* no label occurs twice
Distinct(labels) ==
    \A i, j \in 1..Len(labels) : labels[i] = labels[j] => i = j

\* C15: a sorted stream split into consecutive shards with no cell barcode
\* in two shards: from_bam on each shard with the same annotation, then
\* merge_matrices in shard order, gives the row labels, the column labels
\* and the matrix values that from_bam gives on the whole stream. The code
\* declares one row per entry (C1), so a shard with more entries than cells
\* ends in zero rows that shift the rows of the shards after it.
C15_ShardsEqualWhole ==
    (shard_pc = "merged" /\ Sorted(stream) /\ CellsApart /\ whole.error = None) =>
        /\ merge_error = None
        /\ merged.row_index = whole.value.row_index
        /\ merged.col_index = whole.value.col_index
        /\ merged.matrix = whole.value.matrix

====
